---- MODULE Spec2Model ----
(***************************************************************************)
(* Model of init/main.go: the PID 1 init process of the microVM.           *)
(*                                                                         *)
(* The main sequence (signal.Notify, five mounts, go reapZombies,          *)
(* startServices, the shell, <-signals, Reboot), the reaper goroutine, one *)
(* goroutine per launched service (startAndLogProcess) and the environment *)
(* (signal delivery, children exiting, orphans re-parented to init) are    *)
(* interleaved one statement at a time.                                    *)
(***************************************************************************)
EXTENDS Integers, Sequences, FiniteSets, TLC

\* ------------------------------------------------------------------ bounds
MaxEntries == 2      \* entries in the services directory
MaxServices == 1     \* directory entries in a boot that runs to the end
MaxOrphans == 1      \* processes re-parented to init during one boot
MaxSignals == 2      \* SIGTERM/SIGINT notifications sent during one boot

\* --------------------------------------------------------- program constants
ChanCap == 1         \* make(chan os.Signal, 1)
ExecMask == 73       \* 0111

Signals == {"SIGTERM", "SIGINT"}

\* The mount() calls of main, in statement order.
MountList ==
  << [target |-> "/dev",  fstype |-> "devtmpfs"],
     [target |-> "/proc", fstype |-> "proc"],
     [target |-> "/sys",  fstype |-> "sysfs"],
     [target |-> "/tmp",  fstype |-> "tmpfs"],
     [target |-> "/run",  fstype |-> "tmpfs"] >>

Targets == {MountList[i].target : i \in 1..Len(MountList)}

LogDir == "/var/log"  \* main.go:32

\* --------------------------------------------------- the services directory
\* A directory entry as os.ReadDir and os.Stat see it: type is the entry's own
\* type (DirEntry.IsDir looks at it, a symlink is not a directory), stat is the
\* outcome of os.Stat on the joined path (it follows symlinks), statDir and
\* perm are the mode of what the path resolves to.
ExecFile      == [type |-> "file",    stat |-> "ok",     statDir |-> FALSE, perm |-> 493]
OtherExecFile == [type |-> "file",    stat |-> "ok",     statDir |-> FALSE, perm |-> 421]
PlainFile     == [type |-> "file",    stat |-> "ok",     statDir |-> FALSE, perm |-> 420]
SubDir        == [type |-> "dir",     stat |-> "ok",     statDir |-> TRUE,  perm |-> 493]
Vanished      == [type |-> "file",    stat |-> "enoent", statDir |-> FALSE, perm |-> 0]
LinkToExec    == [type |-> "symlink", stat |-> "ok",     statDir |-> FALSE, perm |-> 493]
LinkToDir     == [type |-> "symlink", stat |-> "ok",     statDir |-> TRUE,  perm |-> 493]

EntryKinds == {ExecFile, OtherExecFile, PlainFile, SubDir, Vanished, LinkToExec, LinkToDir}

\* Entry names are 1..n; os.ReadDir returns the entries sorted by name.
Names == 1..MaxEntries

DirsOver(kinds) ==
  UNION {[1..n -> kinds] : n \in 0..MaxEntries}

\* ------------------------------------------------------------------ children
\* Children of init by pid: one per service entry, the shell, the orphans.
SvcPid(n) == 1 + n
ShellPid == 2 + MaxEntries
OrphanPid(k) == ShellPid + k
Orphans == {OrphanPid(k) : k \in 1..MaxOrphans}
Pids == {SvcPid(n) : n \in Names} \cup {ShellPid} \cup Orphans

VARIABLES
  dirReadable,  \* environment: os.ReadDir(binaryDir) succeeds
  dir,          \* environment: the entries of the services directory, by name
  unmakeable,   \* mount targets whose directory cannot be created
  faulty,       \* environment: the targets whose mount(2) fails
  mainpc,       \* position of main
  notified,     \* signal.Notify has been called
  signals,      \* the buffered channel `signals`
  delivered,    \* notifications sent to the process so far
  consumed,     \* receives from `signals` completed
  rebootCalls,  \* syscall.Reboot invocations
  reports,      \* "Failed to start processes" lines printed
  mountLog,     \* mount() calls made, in order, with their outcome
  readDirCalls, \* os.ReadDir calls made
  files,        \* startServices: the listing returned by os.ReadDir
  idx,          \* startServices: index of the next entry of `files`
  spawns,       \* per entry: `go startAndLogProcess` statements executed
  taskpc,       \* per entry: position of its startAndLogProcess goroutine
  starts,       \* per entry: processes started by cmd.Start
  logOpen,      \* per entry: the goroutine holds its log file open
  logFile,      \* per entry: the file its goroutine opened, << >> if none
  logs,         \* log files that exist in the log directory
  proc,         \* per pid: "none", "running", "zombie", "gone"
  claimedBy,    \* per pid: who collected the exit status
  stdio,        \* per pid: what its stdin, stdout and stderr are connected to
  waitErr,      \* per pid: what the wait of the goroutine that started it
                \* returned: "pending", "status" or "ECHILD"
  reaperpc,     \* position of reapZombies
  backlog       \* children already exited when the current reaper pass began
                \* and not reaped since

vars == << dirReadable, dir, unmakeable, faulty, mainpc, notified, signals, delivered,
           consumed, rebootCalls, reports, mountLog, readDirCalls, files, idx,
           spawns, taskpc, starts, logOpen, logFile, logs, proc, claimedBy,
           stdio, waitErr, reaperpc, backlog >>

envVars == << dirReadable, dir, unmakeable, faulty >>
sigVars == << notified, signals, delivered, consumed >>
svcVars == << readDirCalls, files, idx, spawns, taskpc, starts, logOpen,
             logFile, logs >>
procVars == << proc, claimedBy, stdio, waitErr >>
reapVars == << reaperpc, backlog >>

\* The process is over: the machine restarts, main returned, or the process
\* was ended by a signal.
Halted == mainpc \in {"rebooting", "returned", "killed"}

Zombies == {p \in Pids : proc[p] = "zombie"}
Living == {p \in Pids : proc[p] \in {"running", "zombie"}}

\* ---------------------------------------------------------------- helpers
RECURSIVE BitAnd(_, _)
BitAnd(a, b) ==
  IF a = 0 \/ b = 0 THEN 0
  ELSE (a % 2) * (b % 2) + 2 * BitAnd(a \div 2, b \div 2)

\* Mutant: the log file's name does not depend on the entry.
LogPathShared(logDir, name) == << logDir, 0, ".log" >>

\* filepath.Join(logDir, fmt.Sprintf("%s.log", file.Name()))
LogPath(logDir, name) == << logDir, name, ".log" >>

\* The streams of the init process itself, and of a child this program did
\* not start.
Console == [stdin |-> << "os.Stdin" >>, stdout |-> << "os.Stdout" >>,
            stderr |-> << "os.Stderr" >>]
NoStdio == [stdin |-> << >>, stdout |-> << >>, stderr |-> << >>]

\* ------------------------------------------------------------------- Init
InitProgram ==
  /\ mainpc = "notify"
  /\ notified = FALSE
  /\ signals = << >>
  /\ delivered = 0
  /\ consumed = 0
  /\ rebootCalls = 0
  /\ reports = 0
  /\ mountLog = << >>
  /\ readDirCalls = 0
  /\ files = << >>
  /\ idx = 0
  /\ spawns = [n \in Names |-> 0]
  /\ taskpc = [n \in Names |-> "none"]
  /\ starts = [n \in Names |-> 0]
  /\ logOpen = [n \in Names |-> FALSE]
  /\ logFile = [n \in Names |-> << >>]
  /\ logs = {}
  /\ stdio = [p \in Pids |-> NoStdio]
  /\ proc = [p \in Pids |-> "none"]
  /\ claimedBy = [p \in Pids |-> "nobody"]
  /\ waitErr = [p \in Pids |-> "pending"]
  /\ reaperpc = "off"
  /\ backlog = {}

\* The environments of a boot: the services directory is unreadable, or holds
\* up to MaxEntries entries of the given kinds.
Environment(kinds, faults) ==
  /\ faulty \in faults
  /\ \/ dirReadable = FALSE /\ dir = << >>
     \/ dirReadable = TRUE /\ dir \in DirsOver(kinds)

Init ==
  /\ Environment({ExecFile, SubDir}, {{}, {"/proc"}})
  /\ Len(dir) <= MaxServices
  /\ unmakeable = {}
  /\ InitProgram

\* The boots whose entries are all executable files and whose mounts succeed.
InitFair ==
  /\ Environment({ExecFile}, {{}})
  /\ Len(dir) <= MaxServices
  /\ unmakeable = {}
  /\ InitProgram

\* Every kind of entry and every combination of failing mounts: a target is
\* mounted already, or its directory cannot even be created.
InitLaunch ==
  /\ Environment(EntryKinds, SUBSET Targets)
  /\ unmakeable \in {{}, faulty}
  /\ InitProgram

\* ------------------------------------------------------------------- main
\* main.go:15-16
MainNotify ==
  /\ mainpc = "notify"
  /\ notified' = TRUE
  /\ mainpc' = "mount"
  /\ UNCHANGED << envVars, signals, delivered, consumed, rebootCalls, reports,
                  mountLog, svcVars, procVars, reapVars >>

\* Mutant: the reaper and the services are started after the fourth mount.
AfterMountEarly(i) == IF i >= Len(MountList) - 1 THEN "go_reaper" ELSE "mount"

\* Where main goes after its i-th mount() call.
AfterMount(i) == IF i = Len(MountList) THEN "go_reaper" ELSE "mount"

\* Mutant: main gives up at the first mount() that fails.
MountReturnedChecked(i, mkdirOk, mountOk) ==
  IF mkdirOk /\ mountOk THEN AfterMount(i) ELSE "returned"

\* main.go:70-73: mount() returns nothing, main goes on to its next statement.
MountReturned(i, mkdirOk, mountOk) == AfterMount(i)

\* mount(): MkdirAll and Mount, both results discarded.
MainMount ==
  /\ mainpc = "mount"
  /\ LET i == Len(mountLog) + 1
         m == MountList[i]
         mkdirOk == m.target \notin unmakeable
         mountOk == m.target \notin faulty
     IN /\ mountLog' = Append(mountLog,
                         [target |-> m.target, fstype |-> m.fstype,
                          mkdir |-> mkdirOk, ok |-> mountOk])
        /\ mainpc' = MountReturned(i, mkdirOk, mountOk)
  /\ UNCHANGED << envVars, sigVars, rebootCalls, reports, svcVars, procVars,
                  reapVars >>

\* main.go:29
MainGoReaper ==
  /\ mainpc = "go_reaper"
  /\ reaperpc' = "wait"
  /\ backlog' = Zombies
  /\ mainpc' = "read_dir"
  /\ UNCHANGED << envVars, sigVars, rebootCalls, reports, mountLog, svcVars,
                  procVars >>

\* ---------------------------------------------------------- startServices
\* file.IsDir()
IsDir(f) == f.type = "dir"

\* Mutant: only the owner's execute bit is tested.
IsExecutableOwnerOnly(perm) == BitAnd(perm, 64) # 0

\* info.Mode().Perm()&0111 != 0
IsExecutable(perm) == BitAnd(perm, ExecMask) # 0

\* main.go:87-101: the entry named n of the listing gets a goroutine.
ShouldStart(f) ==
  /\ ~IsDir(f)
  /\ dir[f.name].stat = "ok"
  /\ IsExecutable(dir[f.name].perm)

\* os.ReadDir: the names and types of the entries, sorted by name.
Listing == [n \in 1..Len(dir) |-> [name |-> n, type |-> dir[n].type]]

\* Mutant: a failure of startServices ends main.
AfterStartServicesFatal(err) == IF err THEN "returned" ELSE "shell_start"

\* Where main goes when startServices returns.
AfterStartServices(err) == IF err THEN "report" ELSE "shell_start"

\* main.go:79-82
MainReadDir ==
  /\ mainpc = "read_dir"
  /\ readDirCalls' = readDirCalls + 1
  /\ IF dirReadable
       THEN /\ files' = Listing
            /\ idx' = 1
            /\ mainpc' = "loop"
       ELSE /\ UNCHANGED << files, idx >>
            /\ mainpc' = AfterStartServices(TRUE)
  /\ UNCHANGED << envVars, sigVars, rebootCalls, reports, mountLog, spawns,
                  taskpc, starts, logOpen, logFile, logs, procVars, reapVars >>

\* Mutant: startAndLogProcess is called instead of started as a goroutine.
LaunchReturnsWhenDone == \A n \in Names : taskpc[n] \in {"none", "done"}

\* main.go:101: a go statement returns at once, whatever the goroutine does.
LaunchReturns == TRUE

\* main.go:85-104: one iteration of the loop, or the return after the last.
MainLoop ==
  /\ mainpc = "loop"
  /\ LaunchReturns
  /\ IF idx > Len(files)
       THEN /\ mainpc' = AfterStartServices(FALSE)
            /\ UNCHANGED << idx, spawns, taskpc >>
       ELSE /\ IF ShouldStart(files[idx])
                 THEN /\ taskpc' = [taskpc EXCEPT ![files[idx].name] = "open"]
                      /\ spawns' = [spawns EXCEPT ![files[idx].name] = @ + 1]
                 ELSE UNCHANGED << spawns, taskpc >>
            /\ idx' = idx + 1
            /\ UNCHANGED mainpc
  /\ UNCHANGED << envVars, sigVars, rebootCalls, reports, mountLog,
                  readDirCalls, files, starts, logOpen, logFile, logs,
                  procVars, reapVars >>

\* main.go:32-34
MainReport ==
  /\ mainpc = "report"
  /\ reports' = reports + 1
  /\ mainpc' = "shell_start"
  /\ UNCHANGED << envVars, sigVars, rebootCalls, mountLog, svcVars, procVars,
                  reapVars >>

\* ------------------------------------------------------ startAndLogProcess
\* Mutant: a failure is reported with log.Fatal, which ends the process.
OnTaskFailureFatal == "returned"

\* main.go:111-113, 124-126: a bare return, which ends the goroutine only.
OnTaskFailure == mainpc

\* main.go:110-114: os.OpenFile with O_CREATE|O_WRONLY|O_APPEND.
TaskOpen(n) ==
  /\ ~Halted
  /\ taskpc[n] = "open"
  /\ \E ok \in BOOLEAN :
       IF ok
         THEN /\ logs' = logs \cup {LogPath(LogDir, n)}
              /\ logFile' = [logFile EXCEPT ![n] = LogPath(LogDir, n)]
              /\ logOpen' = [logOpen EXCEPT ![n] = TRUE]
              /\ taskpc' = [taskpc EXCEPT ![n] = "start"]
              /\ UNCHANGED mainpc
         ELSE /\ taskpc' = [taskpc EXCEPT ![n] = "done"]
              /\ mainpc' = OnTaskFailure
              /\ UNCHANGED << logs, logFile, logOpen >>
  /\ UNCHANGED << envVars, sigVars, rebootCalls, reports, mountLog,
                  readDirCalls, files, idx, spawns, starts, procVars,
                  reapVars >>

\* execve of the path can succeed only if it resolves to a regular file.
CanExec(n) == ~dir[n].statDir

\* Mutant: the service inherits the streams of init.
ServiceStdioInherited(n) == Console

\* main.go:117-121: exec.Command leaves Stdin nil (the null device), Stdout
\* and Stderr are the log file.
ServiceStdio(n) ==
  [stdin |-> << "os.DevNull" >>, stdout |-> logFile[n], stderr |-> logFile[n]]

\* main.go:117-126: cmd.Start; on failure the deferred Close runs.
TaskStart(n) ==
  /\ ~Halted
  /\ taskpc[n] = "start"
  /\ \E ok \in {TRUE, FALSE} :
       IF ok /\ CanExec(n)
         THEN /\ proc' = [proc EXCEPT ![SvcPid(n)] = "running"]
              /\ starts' = [starts EXCEPT ![n] = @ + 1]
              /\ stdio' = [stdio EXCEPT ![SvcPid(n)] = ServiceStdio(n)]
              /\ taskpc' = [taskpc EXCEPT ![n] = "wait"]
              /\ UNCHANGED << mainpc, logOpen >>
         ELSE /\ taskpc' = [taskpc EXCEPT ![n] = "done"]
              /\ logOpen' = [logOpen EXCEPT ![n] = FALSE]
              /\ mainpc' = OnTaskFailure
              /\ UNCHANGED << proc, starts, stdio >>
  /\ UNCHANGED << envVars, sigVars, rebootCalls, reports, mountLog,
                  readDirCalls, files, idx, spawns, logFile, logs, claimedBy,
                  waitErr, reapVars >>

\* Mutant: the wait returns only while the child is still a zombie.
CanCollectZombieOnly(p) == proc[p] = "zombie"

\* Mutant: the wait returns without the child having exited.
CanCollectNoWait(p) == TRUE

\* A wait for one's own child p returns once p has exited: with its status if
\* it is still a zombie, with "no child" if somebody else collected it.
CanCollect(p) == proc[p] \in {"zombie", "gone"}

\* Mutant: the wait reports an exit status also when the reaper has taken it.
CollectAlways(p, who) ==
  /\ proc' = [proc EXCEPT ![p] = "gone"]
  /\ claimedBy' = IF proc[p] = "zombie"
                    THEN [claimedBy EXCEPT ![p] = who] ELSE claimedBy
  /\ waitErr' = [waitErr EXCEPT ![p] = "status"]
  /\ backlog' = backlog \ {p}

\* The wait of the goroutine that started p (cmd.Wait, cmd.Run) returns.
Collect(p, who) ==
  IF proc[p] = "zombie"
    THEN /\ proc' = [proc EXCEPT ![p] = "gone"]
         /\ claimedBy' = [claimedBy EXCEPT ![p] = who]
         /\ waitErr' = [waitErr EXCEPT ![p] = "status"]
         /\ backlog' = backlog \ {p}
    ELSE /\ waitErr' = [waitErr EXCEPT ![p] = "ECHILD"]
         /\ UNCHANGED << proc, claimedBy, backlog >>

\* Mutant: the goroutine starts the binary again when its process has exited.
AfterServiceExitRestart == "start"

\* main.go:129-130: after cmd.Wait the function returns.
AfterServiceExit == "done"

\* main.go:129: cmd.Wait, then the deferred Close.
TaskWait(n) ==
  /\ ~Halted
  /\ taskpc[n] = "wait"
  /\ CanCollect(SvcPid(n))
  /\ Collect(SvcPid(n), "owner")
  /\ taskpc' = [taskpc EXCEPT ![n] = AfterServiceExit]
  /\ logOpen' = [logOpen EXCEPT ![n] = (AfterServiceExit # "done")]
  /\ UNCHANGED << envVars, mainpc, sigVars, rebootCalls, reports, mountLog,
                  readDirCalls, files, idx, spawns, starts, logFile, logs,
                  stdio, reaperpc >>

\* ------------------------------------------------- shell, signal, reboot
\* The error of cmd.Run when the shell cannot be started.
StartError == "fork/exec /bin/busybox: no such file or directory"

\* The errors of cmd.Run for a shell whose status it collected: none, a
\* non-zero exit status, death by a signal.
ExitErrors == {"nil", "exit status 1", "signal: killed"}

\* Mutant: main gives up when the shell command reports an error.
AfterShellChecked(err) == IF err = "nil" THEN "await" ELSE "returned"

\* main.go:44-47: the result of cmd.Run is discarded.
AfterShell(err) == "await"

\* main.go:37-44: cmd.Run is Start followed by Wait.
MainShellStart ==
  /\ mainpc = "shell_start"
  /\ \E ok \in BOOLEAN :
       IF ok
         THEN /\ proc' = [proc EXCEPT ![ShellPid] = "running"]
              /\ stdio' = [stdio EXCEPT ![ShellPid] = Console]
              /\ mainpc' = "shell_wait"
         ELSE /\ mainpc' = AfterShell(StartError)
              /\ UNCHANGED << proc, stdio >>
  /\ UNCHANGED << envVars, sigVars, rebootCalls, reports, mountLog, svcVars,
                  claimedBy, waitErr, reapVars >>

\* Mutant: the shell is started without being waited for.
ShellReturnedEarly == TRUE

\* main.go:44: cmd.Run returns once the shell started by it has exited.
ShellReturned == CanCollect(ShellPid)

MainShellWait ==
  /\ mainpc = "shell_wait"
  /\ ShellReturned
  /\ Collect(ShellPid, "owner")
  /\ \E err \in ExitErrors :
       mainpc' = AfterShell(IF proc[ShellPid] = "zombie" THEN err ELSE "ECHILD")
  /\ UNCHANGED << envVars, sigVars, rebootCalls, reports, mountLog, svcVars,
                  stdio, reaperpc >>

\* main.go:47
MainAwait ==
  /\ mainpc = "await"
  /\ Len(signals) > 0
  /\ signals' = Tail(signals)
  /\ consumed' = consumed + 1
  /\ mainpc' = "reboot"
  /\ UNCHANGED << envVars, notified, delivered, rebootCalls, reports, mountLog,
                  svcVars, procVars, reapVars >>

\* Where main is after syscall.Reboot: a successful restart does not return,
\* a failed call returns an error that main ignores, and main ends.
AfterReboot(ok) == IF ok THEN "rebooting" ELSE "returned"

\* main.go:48-49
MainReboot ==
  /\ mainpc = "reboot"
  /\ rebootCalls' = rebootCalls + 1
  /\ \E ok \in BOOLEAN : mainpc' = AfterReboot(ok)
  /\ UNCHANGED << envVars, sigVars, reports, mountLog, svcVars, procVars,
                  reapVars >>

\* ------------------------------------------------------------ reapZombies
\* The results syscall.Wait4(-1, &ws, WNOHANG, nil) can give: a zombie's pid,
\* 0 when children exist but none has exited, ECHILD when there is no child,
\* and a transient error.
Wait4Results ==
  {[pid |-> p, err |-> "nil"] : p \in Zombies}
    \cup (IF Zombies = {} /\ Living # {} THEN {[pid |-> 0, err |-> "nil"]} ELSE {})
    \cup (IF Living = {} THEN {[pid |-> -1, err |-> "ECHILD"]} ELSE {})
    \cup {[pid |-> -1, err |-> "EINTR"]}

\* Mutant: the break leaves both loops, reapZombies returns.
ReaperNextQuit(pid, err) == IF pid <= 0 \/ err # "nil" THEN "returned" ELSE "wait"

\* Mutant: an error of Wait4 ends reapZombies.
ReaperNextFatal(pid, err) ==
  IF err # "nil" THEN "returned" ELSE IF pid <= 0 THEN "sleep" ELSE "wait"

\* main.go:61-65: leave the inner loop for the sleep, or call Wait4 again.
ReaperNext(pid, err) == IF pid <= 0 \/ err # "nil" THEN "sleep" ELSE "wait"

\* main.go:60-63
ReaperWait ==
  /\ ~Halted
  /\ reaperpc = "wait"
  /\ \E r \in Wait4Results :
       /\ IF r.pid > 0
            THEN /\ proc' = [proc EXCEPT ![r.pid] = "gone"]
                 /\ claimedBy' = [claimedBy EXCEPT ![r.pid] = "reaper"]
                 /\ backlog' = backlog \ {r.pid}
            ELSE UNCHANGED << proc, claimedBy, backlog >>
       /\ reaperpc' = ReaperNext(r.pid, r.err)
  /\ UNCHANGED << envVars, mainpc, sigVars, rebootCalls, reports, mountLog,
                  svcVars, stdio, waitErr >>

\* main.go:65, and the start of the next pass
ReaperWake ==
  /\ ~Halted
  /\ reaperpc = "sleep"
  /\ reaperpc' = "wait"
  /\ backlog' = Zombies
  /\ UNCHANGED << envVars, mainpc, sigVars, rebootCalls, reports, mountLog,
                  svcVars, procVars >>

\* ------------------------------------------------------------ environment
\* Mutant: the channel has no buffer, a notification needs a waiting receiver.
NotifyUnbuffered(ch, sig) == IF mainpc = "await" THEN Append(ch, sig) ELSE ch

\* Mutant: every notification is queued.
NotifyUnbounded(ch, sig) == Append(ch, sig)

\* The signal package's delivery to the channel: a send that never blocks, so
\* a notification that finds the buffer full is dropped.
Notify(ch, sig) == IF Len(ch) < ChanCap THEN Append(ch, sig) ELSE ch

\* A SIGTERM or SIGINT arrives after signal.Notify.
Deliver(sig) ==
  /\ ~Halted
  /\ notified
  /\ delivered < MaxSignals
  /\ delivered' = delivered + 1
  /\ signals' = Notify(signals, sig)
  /\ UNCHANGED << envVars, mainpc, notified, consumed, rebootCalls, reports,
                  mountLog, svcVars, procVars, reapVars >>

\* A SIGTERM or SIGINT arrives before signal.Notify: the runtime's default
\* disposition applies, the notification is discarded or ends the process.
DeliverEarly(sig) ==
  /\ ~Halted
  /\ ~notified
  /\ delivered < MaxSignals
  /\ delivered' = delivered + 1
  /\ \E fatal \in BOOLEAN :
       mainpc' = IF fatal THEN "killed" ELSE mainpc
  /\ UNCHANGED << envVars, notified, signals, consumed, rebootCalls, reports,
                  mountLog, svcVars, procVars, reapVars >>

\* A running child of init exits and becomes a zombie.
ChildExit(p) ==
  /\ ~Halted
  /\ proc[p] = "running"
  /\ proc' = [proc EXCEPT ![p] = "zombie"]
  /\ UNCHANGED << envVars, mainpc, sigVars, rebootCalls, reports, mountLog,
                  svcVars, claimedBy, stdio, waitErr, reapVars >>

\* A descendant of a service or of the shell loses its parent and is
\* re-parented to init.
OrphanAppear(k) ==
  /\ ~Halted
  /\ \E p \in Pids \ Orphans : proc[p] # "none"
  /\ proc[OrphanPid(k)] = "none"
  /\ k > 1 => proc[OrphanPid(k - 1)] # "none"
  /\ proc' = [proc EXCEPT ![OrphanPid(k)] = "running"]
  /\ UNCHANGED << envVars, mainpc, sigVars, rebootCalls, reports, mountLog,
                  svcVars, claimedBy, stdio, waitErr, reapVars >>

\* ------------------------------------------------------------------- Next
Next ==
  \/ MainNotify
  \/ MainMount
  \/ MainGoReaper
  \/ MainReadDir
  \/ MainLoop
  \/ MainReport
  \/ MainShellStart
  \/ MainShellWait
  \/ MainAwait
  \/ MainReboot
  \/ \E n \in Names : TaskOpen(n)
  \/ \E n \in Names : TaskStart(n)
  \/ \E n \in Names : TaskWait(n)
  \/ ReaperWait
  \/ ReaperWake
  \/ \E sig \in Signals : Deliver(sig)
  \/ \E sig \in Signals : DeliverEarly(sig)
  \/ \E p \in Pids : ChildExit(p)
  \/ \E k \in 1..MaxOrphans : OrphanAppear(k)

Spec == Init /\ [][Next]_vars

\* A call of Wait4 that collects a child.
ReaperReaps == ReaperWait /\ proc' # proc

\* The Go scheduler runs every runnable goroutine, time.Sleep returns, and a
\* transient failure of Wait4 does not repeat forever.
ReaperFairness ==
  /\ WF_vars(ReaperWake)
  /\ WF_vars(ReaperWait)
  /\ SF_vars(ReaperReaps)

\* A step of the main goroutine.
MainStep ==
  \/ MainNotify
  \/ MainMount
  \/ MainGoReaper
  \/ MainReadDir
  \/ MainLoop
  \/ MainReport
  \/ MainShellStart
  \/ MainShellWait
  \/ MainAwait
  \/ MainReboot

\* The main goroutine runs whenever it is not blocked; so does a service's
\* goroutine whose cmd.Wait can return.  Nothing is assumed of the time a
\* service's log file takes to open, its binary to start or its process to
\* exit.
GoroutineFairness ==
  /\ WF_vars(MainStep)
  /\ WF_vars(\E n \in Names : TaskWait(n))

FairSpec ==
  InitFair /\ [][Next]_vars /\ ReaperFairness /\ GoroutineFairness

\* The boot phase alone, from every environment: main up to the start of the
\* shell and the service goroutines up to the start of their process.
NextLaunch ==
  \/ MainNotify
  \/ MainMount
  \/ MainGoReaper
  \/ MainReadDir
  \/ MainLoop
  \/ MainReport
  \/ MainShellStart
  \/ \E n \in Names : TaskOpen(n)
  \/ \E n \in Names : TaskStart(n)

SpecLaunch == InitLaunch /\ [][NextLaunch]_vars

\* ======================================================================
\*                               Claims
\* ======================================================================
FixedTargets == << "/dev", "/proc", "/sys", "/tmp", "/run" >>

AttemptedTargets == [i \in 1..Len(mountLog) |-> mountLog[i].target]

PastStartServices ==
  mainpc \in {"shell_start", "shell_wait", "await", "reboot", "rebooting",
              "returned"}

\* C1: nothing else runs before the five mounts have been attempted: whenever
\* the reaper has been started, a service goroutine exists, or any child
\* process (service, shell) exists, the mounts of /dev, /proc, /sys, /tmp and
\* /run have all been attempted, in that order, whether or not they succeeded.
C1_Ordering ==
  (\/ reaperpc # "off"
   \/ \E n \in Names : taskpc[n] # "none" \/ spawns[n] > 0
   \/ \E p \in Pids : proc[p] # "none"
   \/ logs # {})
    => AttemptedTargets = FixedTargets

\* C1 witness: a service process runs in a boot where a mount failed.
C1_Witness ==
  /\ \E n \in Names : proc[SvcPid(n)] = "running"
  /\ \E i \in 1..Len(mountLog) : ~mountLog[i].ok

\* C2: whatever number of SIGTERM/SIGINT notifications arrive, the channel
\* never holds more than one, at most one is ever consumed, the reboot is
\* requested at most once, and a main sequence that has got past the reboot
\* call has consumed exactly one notification and requested exactly one reboot.
C2_SingleShutdown ==
  /\ Len(signals) <= 1
  /\ consumed <= 1
  /\ rebootCalls <= 1
  /\ rebootCalls <= consumed
  /\ consumed <= delivered
  /\ mainpc \in {"rebooting", "returned"} => rebootCalls = 1 /\ consumed = 1

\* C2 witness: two notifications arrived in succession before the channel was
\* read, and one reboot was requested.
C2_Witness ==
  /\ delivered >= 2
  /\ consumed = 1
  /\ signals = << >>
  /\ rebootCalls = 1
  /\ mainpc = "rebooting"

\* C6: the main sequence never returns: the process ends only by rebooting.
C6_NeverReturns == mainpc # "returned"

\* C7: the reboot is requested only after the shell command has returned (the
\* shell is not running, and not waiting to be collected by main) and after a
\* delivered notification has been consumed; with no notification there is no
\* reboot.
C7_RebootGuard ==
  /\ (mainpc \in {"reboot", "rebooting", "returned"} \/ rebootCalls > 0)
       => /\ proc[ShellPid] \in {"none", "gone"}
          /\ consumed = 1
          /\ delivered >= 1
  /\ delivered = 0 => rebootCalls = 0 /\ mainpc # "reboot"

\* C7 witness: the shell ran, exited and was collected by main, and the
\* reboot was requested.
C7_Witness ==
  /\ rebootCalls = 1
  /\ claimedBy[ShellPid] = "owner"

\* C8: when the services directory cannot be read, no service goroutine, no
\* service process and no log file ever exists; the error is printed once;
\* the mounts were attempted, the reaper keeps running, and main goes on to
\* the shell (it returns only after a reboot request).
C8_ReadDirFailure ==
  ~dirReadable =>
    /\ \A n \in Names :
         taskpc[n] = "none" /\ spawns[n] = 0 /\ proc[SvcPid(n)] = "none"
    /\ logs = {}
    /\ reports <= 1
    /\ mainpc = "returned" => rebootCalls = 1
    /\ PastStartServices =>
         /\ reports = 1
         /\ AttemptedTargets = FixedTargets
         /\ reaperpc \in {"wait", "sleep"}
    /\ reports = 1 => PastStartServices

\* C8 witness: the directory was unreadable, the error was printed, the shell
\* runs and the reaper is between two passes.
C8_Witness ==
  /\ ~dirReadable
  /\ reports = 1
  /\ proc[ShellPid] = "running"
  /\ reaperpc = "sleep"

\* Bit b (a power of two) is set in x.
HasBit(x, b) == (x \div b) % 2 = 1

\* The entries the launcher is to start: not a directory, stat succeeds, and
\* the owner, group or other execute bit is set.
Eligible(n) ==
  /\ n \in DOMAIN dir
  /\ dir[n].type # "dir"
  /\ dir[n].stat = "ok"
  /\ HasBit(dir[n].perm, 64) \/ HasBit(dir[n].perm, 8) \/ HasBit(dir[n].perm, 1)

\* C4: startServices starts a goroutine for exactly the eligible entries, one
\* each: an entry that is not eligible never gets a goroutine, a process or a
\* log file, no entry gets two goroutines, and once the loop has ended every
\* eligible entry has got its one.
C4_DiscoveryFilter ==
  \A n \in Names :
    /\ spawns[n] <= 1
    /\ ~Eligible(n) =>
         /\ spawns[n] = 0
         /\ taskpc[n] = "none"
         /\ proc[SvcPid(n)] = "none"
         /\ LogPath(LogDir, n) \notin logs
    /\ (dirReadable /\ PastStartServices /\ Eligible(n)) => spawns[n] = 1

\* C4 witness: of a file with only the "other" execute bit and a
\* subdirectory, the file alone was started, with its log file.
C4_Witness ==
  /\ PastStartServices
  /\ \E n, m \in DOMAIN dir :
       /\ dir[n] = OtherExecFile
       /\ dir[m] = SubDir
       /\ spawns[n] = 1
       /\ proc[SvcPid(n)] = "running"
       /\ LogPath(LogDir, n) \in logs
       /\ spawns[m] = 0

\* C5: an entry that does not resolve to a regular file (a subdirectory, a
\* symlink to a directory) never gets a goroutine, a start attempt or a log
\* file; a symlink to a regular executable file is started exactly once.
C5_OnlyRegularFiles ==
  \A n \in DOMAIN dir :
    /\ (dir[n].type = "dir" \/ dir[n].statDir) =>
         /\ spawns[n] = 0
         /\ taskpc[n] = "none"
         /\ LogPath(LogDir, n) \notin logs
    /\ (dirReadable /\ PastStartServices /\ dir[n] = LinkToExec) => spawns[n] = 1

\* C9: the reaper does not begin its sleep while a child that had exited
\* when the pass began is still a zombie.
C9_ReaperDrain == reaperpc = "sleep" => backlog = {}

C10_ReaperForever ==
  /\ [][reaperpc # "off" => reaperpc' \in {"wait", "sleep"}]_vars
  /\ [](mainpc \in {"read_dir", "loop", "report", "shell_start", "shell_wait",
                     "await", "reboot"} => reaperpc \in {"wait", "sleep"})
  /\ [](reaperpc = "sleep" => <>(reaperpc = "wait" \/ Halted))

\* C10 witness: while main awaits the signal, the reaper has begun a pass that
\* finds an exited child.
C10_Witness ==
  /\ mainpc = "await"
  /\ reaperpc = "wait"
  /\ backlog # {}

\* The goroutine that started p is blocked in its wait for p.
OwnerWaits(p) ==
  \/ p = ShellPid /\ mainpc = "shell_wait"
  \/ \E n \in Names : p = SvcPid(n) /\ taskpc[n] = "wait"

\* C11: the exit status of a child is obtained by one caller only: a collected
\* child was claimed by the reaper or by the goroutine that started it; that
\* goroutine's wait returned the status exactly when it was the claimer and
\* "no child" exactly when the reaper was first; the reaper's call is always
\* possible, and the starter's wait can return as soon as the child has
\* exited, whoever collected it.
C11_ReapRace ==
  \A p \in Pids :
    /\ proc[p] = "gone" <=> claimedBy[p] # "nobody"
    /\ waitErr[p] = "status" <=> claimedBy[p] = "owner"
    /\ waitErr[p] = "ECHILD" => claimedBy[p] = "reaper"
    /\ (claimedBy[p] = "reaper" /\ p \notin Orphans /\ ~OwnerWaits(p))
         => waitErr[p] = "ECHILD"
    /\ (~Halted /\ reaperpc = "wait") => ENABLED ReaperWait
    /\ (~Halted /\ proc[p] \in {"zombie", "gone"}) =>
         /\ mainpc = "shell_wait" /\ p = ShellPid => ENABLED MainShellWait
         /\ \A n \in Names :
              taskpc[n] = "wait" /\ p = SvcPid(n) => ENABLED TaskWait(n)

\* C11 witness: the reaper was first for a service, whose goroutine then got
\* "no child" and ended, and main was first for the shell.
C11_Witness ==
  /\ \E n \in Names :
       /\ claimedBy[SvcPid(n)] = "reaper"
       /\ waitErr[SvcPid(n)] = "ECHILD"
       /\ taskpc[n] = "done"
  /\ claimedBy[ShellPid] = "owner"

\* C12 as stated: every entry that got a goroutine yields exactly one
\* process: a goroutine that has ended has started one process.
C12_ExactlyOneInstance ==
  \A n \in Names : taskpc[n] = "done" => starts[n] = 1

\* C12, amended: the directory is listed at most once, an entry gets at most
\* one goroutine and at most one process, exactly one when its log file was
\* opened and its start succeeded (none when either failed), and a goroutine
\* whose process has exited has ended for good with that one process.
C12_AtMostOneInstance ==
  /\ readDirCalls <= 1
  /\ \A n \in Names :
       /\ spawns[n] <= 1
       /\ starts[n] <= spawns[n]
       /\ starts[n] = 1 <=> proc[SvcPid(n)] # "none"
       /\ proc[SvcPid(n)] = "running" => taskpc[n] = "wait"
       /\ (proc[SvcPid(n)] = "gone" /\ waitErr[SvcPid(n)] # "pending")
            => taskpc[n] = "done"

\* C12 witness: a service has exited, was collected, its goroutine has ended,
\* and main is past the shell with that one start on record.
C12_Witness ==
  /\ mainpc = "await"
  /\ \E n \in Names :
       /\ proc[SvcPid(n)] = "gone"
       /\ taskpc[n] = "done"
       /\ starts[n] = 1

\* C13: a service's goroutine opens the file <name>.log of the log directory
\* and no other goroutine opens that file; the stdout and the stderr of a
\* service process are both that file, and never the file of another entry;
\* the log directory holds exactly the files the goroutines opened.
C13_LogIsolation ==
  /\ \A n \in Names :
       /\ logFile[n] \in {<< >>, << "/var/log", n, ".log" >>}
       /\ taskpc[n] \in {"start", "wait"} => logFile[n] # << >>
       /\ proc[SvcPid(n)] # "none" =>
            /\ stdio[SvcPid(n)].stdout = << "/var/log", n, ".log" >>
            /\ stdio[SvcPid(n)].stderr = << "/var/log", n, ".log" >>
       /\ \A m \in Names \ {n} :
            logFile[m] # << >> =>
              /\ logFile[m] # logFile[n]
              /\ stdio[SvcPid(n)].stdout # logFile[m]
              /\ stdio[SvcPid(n)].stderr # logFile[m]
  /\ logs = {logFile[n] : n \in {m \in Names : logFile[m] # << >>}}

\* C13 witness: two services run, each writing to its own log file.
C13_Witness ==
  \E n, m \in Names :
    /\ n # m
    /\ proc[SvcPid(n)] = "running"
    /\ proc[SvcPid(m)] = "running"
    /\ stdio[SvcPid(n)].stdout # stdio[SvcPid(m)].stdout
    /\ Cardinality(logs) = 2

\* The three streams of the console init was started on.
ConsoleStreams == {Console.stdin, Console.stdout, Console.stderr}

\* C20: while the shell runs, it is the only user of init's stdin, stdout and
\* stderr: no stream of a service process is one of them, main is blocked in
\* cmd.Run, and the report of a startServices failure was printed before the
\* shell was started.
C20_ConsoleExclusive ==
  /\ proc[ShellPid] = "running" =>
       /\ stdio[ShellPid] = Console
       /\ mainpc = "shell_wait"
       /\ \A n \in Names :
            {stdio[SvcPid(n)].stdin, stdio[SvcPid(n)].stdout,
             stdio[SvcPid(n)].stderr} \cap ConsoleStreams = {}
  /\ mainpc \in {"read_dir", "loop", "report"} => proc[ShellPid] = "none"
  /\ reports > 0 => mainpc \notin {"read_dir", "loop"}

\* C20 witness: the shell and a service run side by side.
C20_Witness ==
  /\ proc[ShellPid] = "running"
  /\ \E n \in Names :
       /\ proc[SvcPid(n)] = "running"
       /\ stdio[SvcPid(n)].stdout = LogPath(LogDir, n)

\* C14: the loop of startServices is never held up by a service goroutine,
\* and once startServices has been called main gets to the start of the
\* shell, although no service goroutine is assumed ever to take a step.
C14_FireAndForget ==
  /\ [](mainpc = "loop" => ENABLED MainLoop)
  /\ (mainpc \in {"read_dir", "loop", "report", "shell_start"})
       ~> (mainpc \in {"shell_wait", "await"})

\* C14 witness: the shell runs while a service goroutine has not even opened
\* its log file.
C14_Witness ==
  /\ mainpc = "shell_wait"
  /\ proc[ShellPid] = "running"
  /\ \E n \in Names : taskpc[n] = "open"

\* The shell command has returned, or returns as soon as main runs.
ShellOver ==
  \/ mainpc = "await"
  \/ mainpc = "shell_wait" /\ proc[ShellPid] # "running"

\* C15 as stated: a notification that arrives at any time after the start of
\* the process does not end it, and waits in the channel until it is consumed.
C15_AnyTimeNotification ==
  /\ mainpc # "killed"
  /\ (delivered > 0 /\ consumed = 0) => Len(signals) = 1

\* C15 amended: a notification that arrives after signal.Notify leaves main
\* where it is and the channel holding one notification; the channel keeps it
\* until main receives it; and with one notification in the channel and the
\* shell command over, the reboot is requested.
C15_BufferedShutdown ==
  /\ [][(notified /\ delivered' > delivered) =>
          (Len(signals') = 1 /\ mainpc' = mainpc)]_vars
  /\ [][(Len(signals) = 1 /\ mainpc' # "reboot") => signals' = signals]_vars
  /\ [](mainpc = "killed" => ~notified)
  /\ (Len(signals) = 1 /\ ShellOver) ~> (rebootCalls = 1)

\* C15 witness: a single notification arrived, the shell ran and returned,
\* and the reboot was requested.
C15_Witness ==
  /\ notified
  /\ delivered = 1
  /\ proc[ShellPid] = "gone"
  /\ rebootCalls = 1

\* C16: main leaves the shell command only for the receive on the channel,
\* whatever cmd.Run returned; it is never at or past the receive while the
\* shell process runs; and once the shell has failed to start or has exited,
\* collected by the reaper or not, main arrives at the receive.
C16_ShellEndAdvances ==
  /\ [][(mainpc \in {"shell_start", "shell_wait"} /\ mainpc' # mainpc) =>
          mainpc' \in {"shell_wait", "await"}]_vars
  /\ [](mainpc \in {"await", "reboot", "rebooting", "returned"} =>
          proc[ShellPid] \in {"none", "gone"})
  /\ (mainpc = "shell_wait" /\ proc[ShellPid] # "running") ~> (mainpc = "await")

\* C16 witness: main awaits the signal after a shell whose exit status the
\* reaper collected first.
C16_Witness ==
  /\ mainpc = "await"
  /\ claimedBy[ShellPid] = "reaper"
  /\ waitErr[ShellPid] = "ECHILD"

\* The goroutine of entry n ends at its OpenFile or at its cmd.Start.
TaskFails(n) == taskpc[n] \in {"open", "start"} /\ taskpc'[n] = "done"

\* C17: a goroutine that ends at a failed OpenFile or cmd.Start leaves no
\* process behind and changes nothing of main, of the other goroutines or of
\* any process; the goroutines still on their way can still take their step;
\* and when startServices has returned from a readable directory, every
\* eligible entry has got its goroutine and no error was reported.
C17_FailureIsolation ==
  /\ [][\A n \in Names :
          TaskFails(n) =>
            /\ proc' = proc
            /\ mainpc' = mainpc
            /\ reports' = reports
            /\ spawns' = spawns
            /\ \A m \in Names \ {n} : taskpc'[m] = taskpc[m]]_vars
  /\ [](\A n \in Names :
          /\ (taskpc[n] = "done" /\ starts[n] = 0) => proc[SvcPid(n)] = "none"
          /\ taskpc[n] = "open" => ENABLED TaskOpen(n)
          /\ taskpc[n] = "start" => ENABLED TaskStart(n)
          /\ (PastStartServices /\ dirReadable /\ n <= Len(dir) /\ Eligible(n))
                => spawns[n] = 1)
  /\ [](dirReadable => reports = 0)

\* C17 witness: one entry's goroutine has ended without a process, another
\* entry's process runs, and main has started the shell.
C17_Witness ==
  /\ mainpc = "shell_wait"
  /\ reports = 0
  /\ \E n, m \in Names :
       /\ n # m
       /\ taskpc[n] = "done" /\ starts[n] = 0 /\ proc[SvcPid(n)] = "none"
       /\ proc[SvcPid(m)] = "running"

\* C18: the mount attempts made so far are the first targets of the list
\* /dev, /proc, /sys, /tmp, /run, in that order and with the list's file
\* system types, so no target is attempted twice; main is never stuck at a
\* mount; and once main is past the mounts all five have been attempted,
\* whichever of them failed at the directory or at the mount.
C18_MountsOnceInOrder ==
  /\ Len(mountLog) <= Len(FixedTargets)
  /\ \A i \in 1..Len(mountLog) :
       /\ mountLog[i].target = FixedTargets[i]
       /\ mountLog[i].fstype = MountList[i].fstype
       /\ mountLog[i].mkdir = (FixedTargets[i] \notin unmakeable)
       /\ mountLog[i].ok = (FixedTargets[i] \notin faulty)
  /\ mainpc = "notify" => mountLog = << >>
  /\ mainpc = "mount" => Len(mountLog) < Len(FixedTargets) /\ ENABLED MainMount
  /\ mainpc \notin {"notify", "mount"} => Len(mountLog) = Len(FixedTargets)

\* C18 witness: no directory could be created and no mount succeeded, and
\* main has started a service's goroutine and the shell.
C18_Witness ==
  /\ Len(mountLog) = Len(FixedTargets)
  /\ \A i \in 1..Len(mountLog) : ~mountLog[i].mkdir /\ ~mountLog[i].ok
  /\ mainpc = "shell_wait"
  /\ \E n \in Names : proc[SvcPid(n)] = "running"

\* The goroutines whose cmd.Wait can return: their process has exited.
WaitsOver == {n \in Names : taskpc[n] = "wait" /\ proc[SvcPid(n)] # "running"}

\* C19: the log file of an entry is open exactly while its goroutine is
\* between a successful OpenFile and its return, so it is open whenever the
\* service process runs; the step that closes it is taken only when no
\* process was started or the process has exited, be its status still there
\* or taken by the reaper; and a goroutine whose process has exited closes
\* the file and ends.
C19_LogOpenWhileRunning ==
  /\ [](\A n \in Names :
          /\ proc[SvcPid(n)] = "running" => logOpen[n] /\ taskpc[n] = "wait"
          /\ logOpen[n] <=> taskpc[n] \in {"start", "wait"}
          /\ logOpen[n] => logFile[n] # << >>)
  /\ [][\A n \in Names :
          (logOpen[n] /\ ~logOpen'[n]) =>
            /\ proc[SvcPid(n)] \in {"none", "zombie", "gone"}
            /\ proc'[SvcPid(n)] \in {"none", "gone"}
            /\ taskpc'[n] = "done"]_vars
  /\ (WaitsOver # {}) ~> (WaitsOver = {} \/ Halted)

\* C19 witness: the reaper collected a service's exit status, after which
\* the goroutine's cmd.Wait returned and the log file was closed.
C19_Witness ==
  \E n \in Names :
    /\ taskpc[n] = "done"
    /\ logFile[n] # << >>
    /\ ~logOpen[n]
    /\ claimedBy[SvcPid(n)] = "reaper"
    /\ waitErr[SvcPid(n)] = "ECHILD"

====
